---- MODULE Spec2Model ----
(***************************************************************************)
(* Model of pyNomad's resilient chain, CampaignExecutorNomad               *)
(* (src/pyNomad/Capsules/ResilientNomad.py).                               *)
(*                                                                         *)
(* One chain object is modelled: its fields value, signature, error and    *)
(* call_graph, and one action per public method.  Every method is a pure   *)
(* operator on a record of the fields (the "frame" fr) that returns the    *)
(* fields after the call, the exception that leaves the call ("None" when  *)
(* it returns) and the returned object; the actions commit that result.    *)
(* The methods are modelled statement by statement as Python executes      *)
(* them, with the class taken as instantiable and its imports resolved.    *)
(*                                                                         *)
(* The error containers Result (src/pyNomad/Actors/Results.py) and         *)
(* Encapsulate (src/pyNomad/Capsules/Results.py) are modelled the same way *)
(* as one container object, box, with a specification of its own.          *)
(*                                                                         *)
(* A third specification runs bind_task as asyncio runs it: several tasks  *)
(* of one event loop call it on the same chain, and a call whose step      *)
(* suspends gives the loop to the other tasks until it is resumed.         *)
(***************************************************************************)
EXTENDS Integers, Sequences, FiniteSets, TLC

\* Largest length of call_graph at which a call is still issued.
MaxCalls == 3

\* Largest number of bind calls made on one container.
MaxBinds == 3

\* Number of asyncio tasks that call the same chain.
MaxTasks == 2

VARIABLES
    value,       \* self.value
    signature,   \* self.signature
    error,       \* self.error
    call_graph,  \* self.call_graph
    last,        \* observation of the most recent call: what was asked, what ran
    box,         \* the error container the caller holds: class, value, exception
    boxlast,     \* observation of the most recent call on the container
    inflight,    \* per asyncio task: its bind_task call on the chain, if any
    kept         \* the tuple a caller keeps from an unwrap call, if any

chainvars == <<value, signature, error, call_graph, last>>

boxvars == <<box, boxlast>>

vars == <<value, signature, error, call_graph, last, box, boxlast, inflight,
          kept>>

---------------------------------------------------------------------------
(* Python values: int, str and the coroutine object an un-awaited call of  *)
(* an async method returns.                                                *)

IntV(n) == [t |-> "int", n |-> n, s |-> ""]

StrV(s) == [t |-> "str", n |-> 0, s |-> s]

\* the coroutine object of an un-awaited build_path(f); objects are told apart
\* by the function they were created for, not by address
CoroV(f) == [t |-> "coroutine", n |-> 0, s |-> f]

NoneV == [t |-> "None", n |-> 0, s |-> ""]

\* self.error = None
NoError == [kind |-> "None", step |-> "", seq |-> 0]

\* the exception instance of class kind raised while step ran in call number seq
Exc(kind, step, seq) == [kind |-> kind, step |-> step, seq |-> seq]

\* str(value): the text sign() hashes
Str(v) ==
    CASE v.t = "int" -> ToString(v.n)
      [] v.t = "str" -> v.s
      [] OTHER -> "<coroutine object CampaignExecutorNomad.build_path(" \o v.s \o ")>"

\* hashlib.sha256(text.encode()).hexdigest(): a digest determined by the text
\* and, at these sizes, by nothing else
Sha256(text) == [alg |-> "sha256", of |-> text]

\* CampaignExecutorNomad.sign
sign(v) == Sha256(Str(v))

---------------------------------------------------------------------------
(* The step functions callers hand to the chain.                           *)

\* x.upper() on the texts that occur here: digits are unchanged
Upper(s) == IF s = "abc" THEN "ABC" ELSE s

Returns(v) == [ok |-> TRUE, val |-> v, exc |-> "None"]

Raises(kind) == [ok |-> FALSE, val |-> IntV(0), exc |-> kind]

Funcs == {"ident", "add_one", "div_zero", "fail", "ret99", "make_loud"}

\* asyncio.iscoroutinefunction(func): make_loud is declared async def
iscoroutinefunction(f) == f = "make_loud"

\* func(x), as Python evaluates the body on an int, a str or a coroutine object
Call(f, x) ==
    CASE f = "ident"     -> Returns(x)                        \* lambda x: x
      [] f = "add_one"   -> IF x.t = "int" THEN Returns(IntV(x.n + 1))
                            ELSE Raises("TypeError")           \* lambda x: x + 1
      [] f = "div_zero"  -> IF x.t = "int" THEN Raises("ZeroDivisionError")
                            ELSE Raises("TypeError")           \* lambda x: x / 0
      [] f = "fail"      -> Raises("ValueError")               \* raise ValueError
      [] f = "ret99"     -> Returns(IntV(99))                  \* lambda x: 99
      [] f = "lambda_0"  -> Returns(IntV(0))                   \* lambda x: 0
      [] f = "to_none"   -> Returns(NoneV)                     \* lambda x: None
      [] OTHER           -> IF x.t = "str" THEN Returns(StrV(Upper(x.s)))
                            ELSE Raises("AttributeError")      \* async make_loud

\* the fallback build_path and bind_task hand to retry
Fallback == "lambda_0"

Tasks == {"task"}

\* call_graph entries: the object appended (a function or a NomadTask)
FuncEntry(f) == [obj |-> "function", name |-> f]

TaskEntry(t) == [obj |-> "NomadTask", name |-> t]

---------------------------------------------------------------------------
(* The methods.  A frame fr holds the fields during a call, and ran: the    *)
(* step functions executed so far within the call.  A result is             *)
(* [fr, raised, ret]: the frame after, the exception leaving the method     *)
(* (kind "None": it returned) and the returned object ("self" or a value).  *)

Result(fr, raised, ret) == [fr |-> fr, raised |-> raised, ret |-> ret]

Self == StrV("self")

\* __rshift__ running the function at once, as the plain Monad is documented to
rshift_eager(fr, other) ==
    Result([fr EXCEPT !.ran = Append(@, other)], NoError, Call(other, fr.value).val)

\* Monad.__rshift__ on a class whose build_path is async def: build_path(other)
\* only creates a coroutine object; no statement of build_path runs
rshift(fr, other) ==
    Result(fr, NoError, CoroV(other))

\* CampaignExecutorNomad.retry
retry(fr, func, alternative) ==
    LET r == rshift(fr, func) IN
    IF r.raised.kind = "None" THEN r
    ELSE rshift([r.fr EXCEPT !.error = r.raised], alternative)

\* CampaignExecutorNomad.check: the assert holds or raises AssertionError
check(v, sig) == sign(v) = sig

\* `compile = compile` taken as the harmless statement its comment describes
compile_bound == "None"

\* the statement `compile = compile` of build_path: compile is a local name
\* of the function (it is assigned there), read before it is bound
compile_local == "UnboundLocalError"

\* lines 212-224: the try statement of build_path and `return self`
build_path_try(fr, func) ==
    LET seq == Len(fr.call_graph)
        r   == IF iscoroutinefunction(func)
               THEN Call(func, fr.value)  \* await func(self.value)
               ELSE Call(func, fr.value)  \* func(self.value)
        f1  == [fr EXCEPT !.ran = Append(@, func)]
    IN  IF r.ok
        THEN LET f2 == [f1 EXCEPT !.value = r.val] IN
             IF check(f2.value, f2.signature)
             THEN Result([f2 EXCEPT !.branch = "try"], NoError, Self)
             ELSE Result([f2 EXCEPT !.error = Exc("AssertionError", func, seq),
                                    !.branch = "except Exception"], NoError, Self)
        ELSE IF r.exc = "ZeroDivisionError"
        THEN LET q == retry(f1, func, Fallback) IN
             IF q.raised.kind = "None"
             THEN Result([q.fr EXCEPT !.value = q.ret,
                                      !.branch = "except ZeroDivisionError"],
                         NoError, Self)
             ELSE Result([q.fr EXCEPT !.branch = "except ZeroDivisionError"],
                         q.raised, Self)
        ELSE Result([f1 EXCEPT !.error = Exc(r.exc, func, seq),
                               !.branch = "except Exception"], NoError, Self)

\* CampaignExecutorNomad.build_path
build_path(fr, func) ==
    LET f0 == [fr EXCEPT !.call_graph = Append(@, FuncEntry(func))] IN
    IF compile_local # "None"
    THEN Result([f0 EXCEPT !.branch = "raised"],
                Exc(compile_local, "build_path", Len(f0.call_graph)), Self)
    ELSE build_path_try(f0, func)

\* __lshift__ putting the new entry in front of the log
lshift_front(fr, other) ==
    build_path([fr EXCEPT !.call_graph = <<FuncEntry(other)>> \o @], other)

\* CampaignExecutorNomad.__lshift__
lshift(fr, other) ==
    build_path([fr EXCEPT !.call_graph = Append(@, FuncEntry(other))], other)

\* CampaignExecutorNomad.bind_task
bind_task(fr, func, task) ==
    LET f0  == [fr EXCEPT !.call_graph = Append(@, TaskEntry(task))]
        seq == Len(f0.call_graph)
        r   == IF iscoroutinefunction(func)
               THEN Call(func, f0.value)  \* await func(self.value)
               ELSE Call(func, f0.value)  \* func(self.value)
        f1  == [f0 EXCEPT !.ran = Append(@, func)]
    IN  IF r.ok
        THEN LET f2 == [f1 EXCEPT !.value = r.val] IN
             IF check(f2.value, f2.signature)
             THEN Result([f2 EXCEPT !.branch = "try"], NoError, Self)
             ELSE Result([f2 EXCEPT !.error = Exc("AssertionError", func, seq),
                                    !.branch = "except Exception"], NoError, Self)
        ELSE IF r.exc = "ZeroDivisionError"
        THEN LET q == retry(f1, func, Fallback) IN
             IF q.raised.kind = "None"
             THEN Result([q.fr EXCEPT !.value = q.ret,
                                      !.branch = "except ZeroDivisionError"],
                         NoError, Self)
             ELSE Result([q.fr EXCEPT !.branch = "except ZeroDivisionError"],
                         q.raised, Self)
        ELSE Result([f1 EXCEPT !.error = Exc(r.exc, func, seq),
                               !.branch = "except Exception"], NoError, Self)

\* CampaignExecutorNomad.alternate_bind.  Awaiting the coroutine object retry
\* returns runs build_path on the function it was created for; the return in
\* the finally clause replaces whatever the try statement was returning.
alternate_bind(fr, func, alternative, final) ==
    LET r1 == build_path(fr, func) IN
    IF r1.raised.kind # "TypeError" THEN r1
    ELSE LET q  == retry(r1.fr, func, alternative)
             r2 == IF q.raised.kind = "None" THEN build_path(q.fr, q.ret.s) ELSE q
             f3 == IF r2.raised.kind = "None" THEN r2.fr
                   ELSE [r2.fr EXCEPT !.error = r2.raised]
         IN  build_path(f3, final)

\* repr() of a call_graph entry: a function (its address left out), or a
\* NomadTask (NomadTask.__repr__; the task name stands for its func and value)
Repr(e) ==
    IF e.obj = "function" THEN "<function " \o e.name \o ">"
    ELSE "task(" \o e.name \o ")"

\* ", ".join(repr(e) for e in entries)
RECURSIVE Joined(_)
Joined(entries) ==
    IF entries = <<>> THEN ""
    ELSE IF Len(entries) = 1 THEN Repr(entries[1])
    ELSE Repr(entries[1]) \o ", " \o Joined(Tail(entries))

\* str(self.call_graph)
StrList(entries) == "[" \o Joined(entries) \o "]"

\* unwrap as Result.unwrap does it: the stored exception is raised
unwrap_raising(fr) ==
    IF fr.error.kind # "None" THEN Result(fr, fr.error, Self)
    ELSE Result(fr, NoError, <<fr.value, fr.error, StrList(fr.call_graph)>>)

\* unwrap resetting the error it reports
unwrap_clearing(fr) ==
    Result([fr EXCEPT !.error = NoError], NoError,
           <<fr.value, fr.error, StrList(fr.call_graph)>>)

\* a returned object that is the chain's own list rather than a text of it
ListRef == "<self.call_graph>"

\* unwrap handing out the log itself instead of str(self.call_graph)
unwrap_aliasing(fr) ==
    Result(fr, NoError, <<fr.value, fr.error, ListRef>>)

\* CampaignExecutorNomad.unwrap
unwrap(fr) ==
    Result(fr, NoError, <<fr.value, fr.error, StrList(fr.call_graph)>>)

\* func.__name__ exists on a function; a NomadTask instance has none
HasName(e) == e.obj = "function"

\* the lines generate_graph adds to the text, in order
Header == [kind |-> "graph TD", a |-> 0, b |-> 0, label |-> ""]

NodeLine(i, name) == [kind |-> "node", a |-> i, b |-> i, label |-> name]

EdgeLine(i, j) == [kind |-> "edge", a |-> i, b |-> j, label |-> ""]

\* the loop of generate_graph over the first n entries (i = 0 .. n-1); the
\* text so far, or the AttributeError of an entry without __name__
RECURSIVE GraphLoop(_, _)
GraphLoop(entries, n) ==
    IF n = 0 THEN [ok |-> TRUE, text |-> <<Header>>]
    ELSE LET before == GraphLoop(entries, n - 1)
             i == n - 1
         IN  IF ~before.ok THEN before
             ELSE IF ~HasName(entries[n]) THEN [ok |-> FALSE, text |-> before.text]
             ELSE LET t1 == Append(before.text, NodeLine(i, entries[n].name)) IN
                  [ok |-> TRUE,
                   text |-> IF i > 0 THEN Append(t1, EdgeLine(i - 1, i)) ELSE t1]

\* generate_graph that logs itself in call_graph, as the step methods do
generate_graph_logged(fr) ==
    LET f0 == [fr EXCEPT !.call_graph = Append(@, FuncEntry("generate_graph"))]
        g  == GraphLoop(f0.call_graph, Len(f0.call_graph))
    IN  IF g.ok THEN Result(f0, NoError, g.text)
        ELSE Result(f0, Exc("AttributeError", "generate_graph", Len(f0.call_graph)), Self)

\* CampaignExecutorNomad.generate_graph
generate_graph(fr) ==
    LET g == GraphLoop(fr.call_graph, Len(fr.call_graph)) IN
    IF g.ok THEN Result(fr, NoError, g.text)
    ELSE Result(fr, Exc("AttributeError", "generate_graph", Len(fr.call_graph)), Self)

---------------------------------------------------------------------------
(* The error containers.  A container is [cls, value, exception]; a method *)
(* gives [box, raised, ret]: the object after the call, the exception      *)
(* leaving the method and the returned object.                             *)

\* a two-element tuple
TupleV(a, b) == [t |-> "tuple", fst |-> a, snd |-> b]

Box(cls, v, exc) == [cls |-> cls, value |-> v, exception |-> exc]

BoxResult(b, raised, ret) ==
    [box |-> b, raised |-> raised, ret |-> ret, ran |-> <<>>]

\* the same outcome, reached after executing the functions fs
Ran(r, fs) == [r EXCEPT !.ran = fs]

\* Result.__init__
Result_init(v, exc) == BoxResult(Box("Result", v, exc), NoError, NoneV)

\* Result.bind: self when an exception is stored, else a new Result
Result_bind(b, func) ==
    IF b.exception.kind # "None" THEN BoxResult(b, NoError, b)
    ELSE LET r == Call(func, b.value) IN
         IF r.ok
         THEN Ran(BoxResult(b, NoError, Result_init(r.val, NoError).box), <<func>>)
         ELSE Ran(BoxResult(b, NoError, Result_init(NoneV, Exc(r.exc, func, 0)).box),
                  <<func>>)

\* Result.unwrap_or
Result_unwrap_or(b, v) ==
    IF b.exception.kind # "None" THEN BoxResult(b, NoError, v)
    ELSE BoxResult(b, NoError, b.value)

\* Encapsulate.__init__: with value None, self.exception is read (line 53)
\* before it is assigned (line 61)
Encapsulate_init(v, exc) ==
    IF v = NoneV
    THEN BoxResult(Box("Encapsulate", v, NoError),
                   Exc("AttributeError", "__init__", 0), NoneV)
    ELSE BoxResult(Box("Encapsulate", v, exc), NoError, NoneV)

\* Encapsulate((self, e)), the object bind returns on a failure
Wrapped(b) == Encapsulate_init(TupleV(Self, b.exception), NoError).box

\* Encapsulate.bind: func is applied, its result stored in self.value, and
\* func is applied again to produce the returned object
Encapsulate_bind(b, func) ==
    IF b.exception.kind # "None" THEN BoxResult(b, NoError, Wrapped(b))
    ELSE LET r1 == Call(func, b.value) IN
         IF ~r1.ok
         THEN LET b1 == [b EXCEPT !.exception = Exc(r1.exc, func, 0)] IN
              Ran(BoxResult(b1, NoError, Wrapped(b1)), <<func>>)
         ELSE LET b1 == [b EXCEPT !.value = r1.val]
                  r2 == Call(func, b1.value)
              IN  IF r2.ok THEN Ran(BoxResult(b1, NoError, r2.val), <<func, func>>)
                  ELSE LET b2 == [b1 EXCEPT !.exception = Exc(r2.exc, func, 0)] IN
                       Ran(BoxResult(b2, NoError, Wrapped(b2)), <<func, func>>)

\* Encapsulate.unwrap_or: a tuple when an exception is stored; otherwise the
\* attribute self.message, which no statement of the class assigns, is read
Encapsulate_unwrap_or(b, v) ==
    IF b.exception.kind # "None"
    THEN BoxResult(b, NoError, TupleV(b.exception, v))
    ELSE BoxResult(b, Exc("AttributeError", "unwrap_or", 0), NoneV)

\* Monad.__init__, which Maybe inherits; neither class has an exception field
Maybe_init(v) == BoxResult(Box("Maybe", v, NoError), NoError, NoneV)

\* build_path without the test for None
Maybe_build_path_eager(b, func) ==
    LET r == Call(func, b.value) IN
    IF r.ok THEN Ran(BoxResult(b, NoError, Maybe_init(r.val).box), <<func>>)
    ELSE Ran(BoxResult(b, Exc(r.exc, func, 0), NoneV), <<func>>)

\* Maybe.build_path: an exception of func leaves the method
Maybe_build_path(b, func) ==
    IF b.value = NoneV THEN BoxResult(b, NoError, Maybe_init(NoneV).box)
    ELSE LET r == Call(func, b.value) IN
         IF r.ok THEN Ran(BoxResult(b, NoError, Maybe_init(r.val).box), <<func>>)
         ELSE Ran(BoxResult(b, Exc(r.exc, func, 0), NoneV), <<func>>)

\* Monad.__init__
Monad_init(v) == BoxResult(Box("Monad", v, NoError), NoError, NoneV)

\* Monad.build_path: the body is a docstring and nothing else, so the method
\* returns None
Monad_build_path(b, func) == BoxResult(b, NoError, NoneV)

\* Monad.__rshift__
Monad_rshift(b, other) == Monad_build_path(b, other)

\* Monad.__lshift__
Monad_lshift(b, other) == Monad_build_path(b, other)

\* no container constructed
NoBox == Box("None", NoneV, NoError)

NoBoxCall == [op |-> "init", func |-> "", default |-> NoneV, pre |-> NoBox,
              raised |-> NoError, ret |-> NoneV, ran |-> <<>>, binds |-> 0]

---------------------------------------------------------------------------
(* bind_task as the event loop runs it.  A step that suspends is an async  *)
(* def that awaits once (asyncio.sleep(0)) and then does what the plain    *)
(* step named by Body does.                                                *)

TaskIds == 1..MaxTasks

AsyncSteps == {"slow_ident", "slow_inc", "slow_fail", "slow_div"}

\* the statements of a suspending step after its await
Body(f) ==
    CASE f = "slow_ident" -> "ident"
      [] f = "slow_inc"   -> "add_one"
      [] f = "slow_fail"  -> "fail"
      [] OTHER            -> "div_zero"

\* bind_task releasing the value while its step is awaited
bind_task_begin_clearing(fr, func, task) ==
    LET f0 == [fr EXCEPT !.call_graph = Append(@, TaskEntry(task))] IN
    [fr |-> [f0 EXCEPT !.value = IntV(0)], arg |-> f0.value]

\* bind_task up to the suspension: the append of line 189, and line 192 as far
\* as func(self.value), which reads self.value, and the await of its result
bind_task_begin(fr, func, task) ==
    LET f0 == [fr EXCEPT !.call_graph = Append(@, TaskEntry(task))] IN
    [fr |-> f0, arg |-> f0.value]

\* bind_task from the resumption on: the step finishes on the argument it was
\* given, then the assignment of line 192 and lines 195-203
bind_task_resume(fr, func, arg) ==
    LET seq == Len(fr.call_graph)
        r   == Call(Body(func), arg)
        f1  == [fr EXCEPT !.ran = Append(@, func)]
    IN  IF r.ok
        THEN LET f2 == [f1 EXCEPT !.value = r.val] IN
             IF check(f2.value, f2.signature)
             THEN Result([f2 EXCEPT !.branch = "try"], NoError, Self)
             ELSE Result([f2 EXCEPT !.error = Exc("AssertionError", func, seq),
                                    !.branch = "except Exception"], NoError, Self)
        ELSE IF r.exc = "ZeroDivisionError"
        THEN LET q == retry(f1, func, Fallback) IN
             Result([q.fr EXCEPT !.value = q.ret,
                                 !.branch = "except ZeroDivisionError"],
                    NoError, Self)
        ELSE Result([f1 EXCEPT !.error = Exc(r.exc, func, seq),
                               !.branch = "except Exception"], NoError, Self)

\* a task that has no call on the chain
Idle == [pc |-> "idle", func |-> "", arg |-> IntV(0), alone |-> TRUE,
         snap |-> <<>>]

NoFlights == [i \in TaskIds |-> Idle]

---------------------------------------------------------------------------
(* The state machine.                                                      *)

InitValues == {IntV(10), StrV("abc")}

\* what an external writer may store in the public attribute value
TamperValues == {IntV(7), StrV("10")}

NoCall == [op |-> "init", func |-> "", alt |-> "", final |-> "", task |-> "",
           tampered |-> FALSE,
           preValue |-> IntV(0), preSignature |-> Sha256(""),
           preError |-> NoError, preLen |-> 0, preGraph |-> <<>>,
           ran |-> <<>>, branch |-> "", raised |-> NoError, ret |-> Self]

\* no unwrap result is held by a caller
NoKept == [taken |-> FALSE, ret |-> <<>>, seen |-> <<>>, len |-> 0]

\* __init__ with the signature left at the digest of the empty text
Init_unsigned ==
    \E v \in InitValues :
        /\ value = v
        /\ signature = Sha256("")
        /\ error = NoError
        /\ call_graph = <<>>
        /\ last = NoCall
        /\ box = NoBox
        /\ boxlast = NoBoxCall
        /\ inflight = NoFlights
        /\ kept = NoKept

\* Nomad.__init__
Init ==
    \E v \in InitValues :
        /\ value = v
        /\ signature = sign(v)
        /\ error = NoError
        /\ call_graph = <<>>
        /\ last = NoCall
        /\ box = NoBox
        /\ boxlast = NoBoxCall
        /\ inflight = NoFlights
        /\ kept = NoKept

\* the fields at the start of a call
Frame == [value |-> value, signature |-> signature, error |-> error,
          call_graph |-> call_graph, ran |-> <<>>, branch |-> ""]

\* the fields after the call, and the observation of it
Committed(op, func, alt, final, task, r) ==
    /\ value' = r.fr.value
    /\ signature' = r.fr.signature
    /\ error' = r.fr.error
    /\ call_graph' = r.fr.call_graph
    /\ last' = [op |-> op, func |-> func, alt |-> alt, final |-> final,
                task |-> task,
                tampered |-> (last.op = "tamper"),
                preValue |-> value, preSignature |-> signature,
                preError |-> error,
                preLen |-> Len(call_graph), preGraph |-> call_graph,
                ran |-> r.fr.ran, branch |-> r.fr.branch, raised |-> r.raised,
                ret |-> r.ret]
    /\ UNCHANGED <<boxvars, inflight>>

\* a call whose return value the caller does not keep
Commit(op, func, alt, final, task, r) ==
    /\ Committed(op, func, alt, final, task, r)
    /\ UNCHANGED kept

CanCall == Len(call_graph) < MaxCalls

BuildPath ==
    /\ CanCall
    /\ \E f \in Funcs : Commit("build_path", f, "", "", "", build_path(Frame, f))

LShift ==
    /\ CanCall
    /\ \E f \in Funcs : Commit("lshift", f, "", "", "", lshift(Frame, f))

BindTask ==
    /\ CanCall
    /\ \E f \in Funcs, t \in Tasks : Commit("bind_task", f, "", "", t, bind_task(Frame, f, t))

Retry ==
    /\ CanCall
    /\ last.op # "retry"
    /\ \E f \in Funcs : Commit("retry", f, Fallback, "", "", retry(Frame, f, Fallback))

\* the (alternative, final) pairs callers pass to alternate_bind
Recoveries == {<<"fail", "ret99">>, <<"fail", "fail">>, <<"ident", "ret99">>}

AlternateBind ==
    /\ CanCall
    /\ \E f \in Funcs, p \in Recoveries :
           Commit("alternate_bind", f, p[1], p[2], "",
                  alternate_bind(Frame, f, p[1], p[2]))

\* an assignment to chain.value from outside the chain, between two calls
Tamper ==
    /\ CanCall
    /\ last.op # "tamper"
    /\ \E v \in TamperValues \ {value} :
        /\ value' = v
        /\ last' = [NoCall EXCEPT !.op = "tamper", !.preValue = value,
                                  !.preSignature = signature,
                                  !.preError = error, !.preLen = Len(call_graph),
                                  !.preGraph = call_graph]
        /\ UNCHANGED <<signature, error, call_graph>>
        /\ UNCHANGED <<boxvars, inflight, kept>>

Unwrap ==
    /\ CanCall
    /\ last.op # "unwrap"
    /\ Commit("unwrap", "", "", "", "", unwrap(Frame))

GenerateGraph ==
    /\ CanCall
    /\ last.op # "generate_graph"
    /\ Commit("generate_graph", "", "", "", "", generate_graph(Frame))

Next ==
    \/ BuildPath \/ LShift \/ BindTask \/ Retry \/ AlternateBind \/ Tamper
    \/ Unwrap \/ GenerateGraph

Spec == Init /\ [][Next]_vars

---------------------------------------------------------------------------
(* The state machine of the containers.  The caller constructs a Result,   *)
(* an Encapsulate, a Maybe or a plain Monad, binds steps to it and asks    *)
(* for its value with a default.  With Result and Maybe the caller goes on *)
(* with the object the call returns (x = x.bind(f)); Encapsulate.bind      *)
(* changes the object itself; Monad's methods return no object.            *)

BoxValues == {IntV(10), StrV("abc"), NoneV}

BoxFuncs == {"add_one", "div_zero", "fail", "ret99", "to_none"}

\* an exception instance the caller passes to a constructor
CallerExc == Exc("KeyError", "caller", 0)

Defaults == {IntV(4), StrV("none")}

\* the objects the constructors give; a constructor that raises gives none
Constructed ==
    {c.box : c \in {k \in {Result_init(v, NoError) : v \in BoxValues}
                            \cup {Result_init(v, CallerExc) : v \in BoxValues}
                            \cup {Encapsulate_init(v, NoError) : v \in BoxValues}
                            \cup {Maybe_init(v) : v \in BoxValues}
                            \cup {Monad_init(v) : v \in BoxValues} :
                       k.raised.kind = "None"}}

ContainerInit ==
    /\ value = IntV(10)
    /\ signature = sign(IntV(10))
    /\ error = NoError
    /\ call_graph = <<>>
    /\ last = NoCall
    /\ box \in Constructed
    /\ boxlast = [NoBoxCall EXCEPT !.pre = box]
    /\ inflight = NoFlights
    /\ kept = NoKept

\* the container the caller holds after the call, and the observation of it
BoxCommit(op, func, default, held, r) ==
    /\ box' = held
    /\ boxlast' = [op |-> op, func |-> func, default |-> default, pre |-> box,
                   raised |-> r.raised, ret |-> r.ret, ran |-> r.ran,
                   binds |-> boxlast.binds + (IF op = "unwrap_or" THEN 0 ELSE 1)]
    /\ UNCHANGED <<chainvars, inflight, kept>>

CanBind == boxlast.binds < MaxBinds

ResultBind ==
    /\ box.cls = "Result"
    /\ CanBind
    /\ \E f \in BoxFuncs :
           LET r == Result_bind(box, f) IN BoxCommit("bind", f, NoneV, r.ret, r)

ResultUnwrapOr ==
    /\ box.cls = "Result"
    /\ \E d \in Defaults :
           LET r == Result_unwrap_or(box, d) IN BoxCommit("unwrap_or", "", d, r.box, r)

EncapsulateBind ==
    /\ box.cls = "Encapsulate"
    /\ CanBind
    /\ \E f \in BoxFuncs :
           LET r == Encapsulate_bind(box, f) IN BoxCommit("bind", f, NoneV, r.box, r)

EncapsulateUnwrapOr ==
    /\ box.cls = "Encapsulate"
    /\ \E d \in Defaults :
           LET r == Encapsulate_unwrap_or(box, d) IN BoxCommit("unwrap_or", "", d, r.box, r)

\* x = x.build_path(f): the caller goes on with the returned Maybe, or, when
\* the call raised, still holds the old one
MaybeBuildPath ==
    /\ box.cls = "Maybe"
    /\ CanBind
    /\ \E f \in BoxFuncs :
           LET r == Maybe_build_path(box, f) IN
           BoxCommit("build_path", f, NoneV,
                     IF r.raised.kind = "None" THEN r.ret ELSE r.box, r)

MonadBuildPath ==
    /\ box.cls = "Monad"
    /\ CanBind
    /\ \E f \in BoxFuncs :
           LET r == Monad_build_path(box, f) IN BoxCommit("build_path", f, NoneV, r.box, r)

MonadRShift ==
    /\ box.cls = "Monad"
    /\ CanBind
    /\ \E f \in BoxFuncs :
           LET r == Monad_rshift(box, f) IN BoxCommit("rshift", f, NoneV, r.box, r)

MonadLShift ==
    /\ box.cls = "Monad"
    /\ CanBind
    /\ \E f \in BoxFuncs :
           LET r == Monad_lshift(box, f) IN BoxCommit("lshift", f, NoneV, r.box, r)

ContainerNext ==
    \/ ResultBind \/ ResultUnwrapOr \/ EncapsulateBind \/ EncapsulateUnwrapOr
    \/ MaybeBuildPath \/ MonadBuildPath \/ MonadRShift \/ MonadLShift

ContainerSpec == ContainerInit /\ [][ContainerNext]_vars

---------------------------------------------------------------------------
(* The state machine of overlapping calls.  Each task of the event loop    *)
(* may call bind_task with a step that suspends; the loop then runs any    *)
(* other task, and later resumes any suspended call.                       *)

Suspended(i) == inflight[i].pc = "suspended"

\* task i calls bind_task; the call runs up to the await of its step
StartCall(i) ==
    /\ CanCall
    /\ inflight[i].pc = "idle"
    /\ \E f \in AsyncSteps, t \in Tasks :
         LET b == bind_task_begin(Frame, f, t) IN
         /\ call_graph' = b.fr.call_graph
         /\ value' = b.fr.value
         /\ inflight' =
              [j \in TaskIds |->
                 IF j = i
                 THEN [pc |-> "suspended", func |-> f, arg |-> b.arg,
                       alone |-> \A k \in TaskIds \ {i} : ~Suspended(k),
                       snap |-> <<b.fr.value, signature, error, b.fr.call_graph>>]
                 ELSE IF Suspended(j) THEN [inflight[j] EXCEPT !.alone = FALSE]
                 ELSE inflight[j]]
         /\ UNCHANGED <<signature, error, last, boxvars, kept>>

\* the event loop resumes the suspended call of task i, which runs to its return
ResumeCall(i) ==
    /\ Suspended(i)
    /\ LET r == bind_task_resume(Frame, inflight[i].func, inflight[i].arg) IN
         /\ value' = r.fr.value
         /\ signature' = r.fr.signature
         /\ error' = r.fr.error
         /\ call_graph' = r.fr.call_graph
    /\ inflight' = [inflight EXCEPT ![i] = Idle]
    /\ UNCHANGED <<last, boxvars, kept>>

AsyncNext == \E i \in TaskIds : StartCall(i) \/ ResumeCall(i)

AsyncSpec == Init /\ [][AsyncNext]_vars

---------------------------------------------------------------------------
(* A caller that keeps what unwrap returned and goes on using the chain:   *)
(* `snapshot = chain.unwrap()` followed by further apply calls.            *)

\* what a caller reads from a tuple it holds: a str is its own content, the
\* chain's list shows whatever the chain has appended to it since
Read(t) ==
    <<t[1], t[2], IF t[3] = ListRef THEN StrList(call_graph) ELSE t[3]>>

\* snapshot = chain.unwrap()
UnwrapKeep ==
    /\ ~kept.taken
    /\ LET r == unwrap(Frame) IN
         /\ r.raised.kind = "None"
         /\ Committed("unwrap", "", "", "", "", r)
         /\ kept' = [taken |-> TRUE, ret |-> r.ret, seen |-> Read(r.ret),
                     len |-> Len(call_graph)]

SnapshotNext ==
    \/ BuildPath \/ LShift \/ BindTask \/ Retry \/ AlternateBind \/ UnwrapKeep

SnapshotSpec == Init /\ [][SnapshotNext]_vars

---------------------------------------------------------------------------
(* Vocabulary of the properties.                                           *)

\* apply: build_path and its operator form
ApplyOps == {"build_path", "lshift"}

\* apply*: every step-application method
ApplyStarOps == {"build_path", "lshift", "bind_task", "alternate_bind"}

ErrorSet == error.kind # "None"

\* what the step of the last call does on the value the call started with
StepOnPre == Call(last.func, last.preValue)

\* the last call ended in the handler that records a failure
Failed == last.op \in ApplyStarOps /\ last.branch = "except Exception"

\* the last call ran its try body to the end
Succeeded == last.op \in ApplyStarOps /\ last.branch = "try"

\* the last call took the division-by-zero handler
Retried == last.op \in ApplyStarOps /\ last.branch = "except ZeroDivisionError"

\* the last call ran its step and check() found the result's signature
\* different from the stored one
GuardMismatch ==
    /\ last.op \in ApplyStarOps
    /\ last.ran # <<>>
    /\ StepOnPre.ok
    /\ ~check(StepOnPre.val, signature)

---------------------------------------------------------------------------
(* The properties.                                                         *)

\* C1 (short-circuit): once the pending error is set, a later apply call
\* (build_path / <<) runs no step function, leaves value and signature as
\* they were, and appends exactly one entry to the log, and that entry is
\* marked Skipped.
C1_ShortCircuit ==
    (last.op \in ApplyOps /\ last.preError.kind # "None") =>
        /\ last.ran = <<>>
        /\ value = last.preValue
        /\ signature = last.preSignature
        /\ Len(call_graph) = last.preLen + 1
        /\ LET e == call_graph[Len(call_graph)] IN
               "outcome" \in DOMAIN e /\ e.outcome = "Skipped"

\* C2 (no partial corruption): a call that ends in the failure handler (the
\* pending error is set by that call) leaves value equal to the value the
\* call started with.
C2_NoPartialCorruption == Failed => value = last.preValue

\* C3 (signature freshness): right after a call that succeeded or was
\* retried, the stored signature is sign of the current value.
C3_SignatureFresh == (Succeeded \/ Retried) => signature = sign(value)

\* C4 (one provenance entry per call): every apply* call lengthens call_graph
\* by exactly one entry, so N calls on a fresh chain leave length N.
C4_OneEntryPerCall ==
    last.op \in ApplyStarOps => Len(call_graph) = last.preLen + 1

C7_CorruptionRaises ==
    GuardMismatch => (last.raised.kind = "AssertionError" /\ error = last.preError)

\* C8 (tamper detection before dispatch): when the value was overwritten from
\* outside between two calls, with a value of another signature, the next
\* apply* call raises the corruption condition and runs no step function.
C8_TamperDetected ==
    (/\ last.op \in ApplyStarOps
     /\ last.tampered
     /\ last.preLen > 0
     /\ sign(last.preValue) # last.preSignature) =>
        (last.raised.kind = "AssertionError" /\ last.ran = <<>>)

\* C9 (ordinary failures never escape): an apply* call whose step fails on
\* the current value with a failure other than division by zero returns to
\* its caller, and that failure is the pending error afterwards.
C9_FailuresCaptured ==
    (/\ last.op \in ApplyStarOps
     /\ ~StepOnPre.ok
     /\ StepOnPre.exc # "ZeroDivisionError") =>
        (last.raised.kind = "None" /\ error.kind = StepOnPre.exc)

\* C10 (automatic retry on division by zero): when the step of a call fails
\* with ZeroDivisionError, the pending error is left as it was and the value
\* becomes the result of the fallback (lambda x: 0) on the pre-step value:
\* the payload 0.
C10_RetryOnZeroDivision ==
    Retried =>
        /\ error = last.preError
        /\ value = Call(Fallback, last.preValue).val
        /\ value.t \in {"int", "str"}

\* the last call started on a chain with no pending error whose value still
\* matches its signature
CleanStart ==
    /\ last.preError.kind = "None"
    /\ sign(last.preValue) = last.preSignature

\* the newest entry of the log
NewestEntry == call_graph[Len(call_graph)]

\* C11 (successful step): on a chain with no pending error and an untampered
\* value, apply (build_path / <<) with a step that returns normally returns,
\* sets value to step(old value), leaves the pending error absent and records
\* a Success entry; create(10) then apply(x + 1) gives 11 with no error.
C11_SuccessfulStep ==
    (last.op \in ApplyOps /\ CleanStart /\ StepOnPre.ok) =>
        /\ last.raised.kind = "None"
        /\ value = StepOnPre.val
        /\ ~ErrorSet
        /\ "outcome" \in DOMAIN NewestEntry /\ NewestEntry.outcome = "Success"

\* C12 (applyWithRecovery result): when step and alternative both fail on
\* the pre-step value and final returns, alternate_bind returns, value is
\* final(pre-step value), the pending error is absent and the log gained a
\* single entry, marked Recovered.
C12_RecoveryResult ==
    (/\ last.op = "alternate_bind"
     /\ CleanStart
     /\ ~StepOnPre.ok
     /\ ~Call(last.alt, last.preValue).ok
     /\ Call(last.final, last.preValue).ok) =>
        /\ last.raised.kind = "None"
        /\ value = Call(last.final, last.preValue).val
        /\ ~ErrorSet
        /\ Len(call_graph) = last.preLen + 1
        /\ "outcome" \in DOMAIN NewestEntry /\ NewestEntry.outcome = "Recovered"

\* C13 (applyWithFallback): when the primary step of retry(step, alternative)
\* fails on the pre-step value, the alternative is executed exactly once on
\* that value; if it returns, value is alternative(pre-step value) and the
\* pending error stays as absent as it was.
C13_FallbackRuns ==
    (/\ last.op = "retry"
     /\ last.preError.kind = "None"
     /\ ~StepOnPre.ok
     /\ Call(last.alt, last.preValue).ok) =>
        /\ Len(SelectSeq(last.ran, LAMBDA g : g = last.alt)) = 1
        /\ value = Call(last.alt, last.preValue).val
        /\ ~ErrorSet

\* C14 (unrecognized failure): when the step of an apply on a clean chain
\* fails with a kind other than division by zero, only the step was executed
\* (no fallback), the call returns, the pending error is that failure, value
\* is unchanged and the log gained one entry; and an apply issued while the
\* pending error is set returns, leaves value unchanged and adds one entry.
C14_UnrecognizedFailure ==
    /\ (/\ last.op \in ApplyOps
        /\ CleanStart
        /\ ~StepOnPre.ok
        /\ StepOnPre.exc # "ZeroDivisionError") =>
           /\ last.ran = <<last.func>>
           /\ last.raised.kind = "None"
           /\ error.kind = StepOnPre.exc
           /\ value = last.preValue
           /\ Len(call_graph) = last.preLen + 1
    /\ (last.op \in ApplyOps /\ last.preError.kind # "None") =>
           /\ last.raised.kind = "None"
           /\ value = last.preValue
           /\ Len(call_graph) = last.preLen + 1

\* C15 (unwrap observes): in every reachable state, with or without a
\* pending error, unwrap() returns without raising the triple (value, pending
\* error, text of the log) and changes none of value, signature, pending
\* error and log.
C15_UnwrapObserves ==
    last.op = "unwrap" =>
        /\ last.raised.kind = "None"
        /\ last.ret = <<value, error, StrList(call_graph)>>
        /\ value = last.preValue
        /\ signature = last.preSignature
        /\ error = last.preError
        /\ call_graph = last.preGraph

\* unwrap was called on a chain with a pending error and a non-empty log
C15_Witness == last.op = "unwrap" /\ ErrorSet /\ Len(call_graph) >= 2

\* the entry a call appends: bind_task logs its task, the others their step
EntryOfCall ==
    IF last.op = "bind_task" THEN TaskEntry(last.task) ELSE FuncEntry(last.func)

\* C16 (append-only, in call order): after any apply* call the log before
\* the call is a prefix of the log (nothing removed, modified or reordered),
\* and every entry after that prefix is the entry of this call, so entries
\* stand in the order the calls were issued.
C16_AppendOnly ==
    last.op \in ApplyStarOps =>
        /\ Len(call_graph) >= last.preLen
        /\ SubSeq(call_graph, 1, last.preLen) = last.preGraph
        /\ \A i \in (last.preLen + 1)..Len(call_graph) : call_graph[i] = EntryOfCall

\* an apply* call was made on a log that already held two different entries
C16_Witness ==
    /\ last.op \in ApplyStarOps
    /\ last.preLen = 2
    /\ last.preGraph[1] # last.preGraph[2]
    /\ EntryOfCall # last.preGraph[1]

Outcomes == {"Success", "Failed", "Retried", "Recovered", "Skipped"}

\* C17 (entries carry function and outcome): after any apply* call the
\* newest entry of the log identifies the function attempted by that call and
\* carries an outcome, one of Success, Failed, Retried, Recovered, Skipped,
\* that matches what happened: Success when the try body completed, Failed
\* when the failure handler ran, Skipped when a pending error was set before.
C17_EntryOutcome ==
    last.op \in ApplyStarOps =>
        /\ NewestEntry.obj = "function"
        /\ NewestEntry.name = last.func
        /\ "outcome" \in DOMAIN NewestEntry
        /\ NewestEntry.outcome \in Outcomes
        /\ Succeeded => NewestEntry.outcome = "Success"
        /\ Failed => NewestEntry.outcome = "Failed"
        /\ last.preError.kind # "None" => NewestEntry.outcome = "Skipped"

\* the chain as generate_graph sees it when only the log is kept
OnlyLog(v) ==
    [Frame EXCEPT !.value = v, !.signature = sign(v), !.error = NoError]

\* C19 (render is pure and idempotent): generate_graph changes none of log,
\* value, signature and pending error; rendering again with no call in
\* between gives the identical result; and the result is the one any chain
\* with the same log gives, whatever its value, signature and pending error.
C19_RenderPure ==
    last.op = "generate_graph" =>
        /\ call_graph = last.preGraph
        /\ value = last.preValue
        /\ signature = last.preSignature
        /\ error = last.preError
        /\ generate_graph(Frame).raised = last.raised
        /\ generate_graph(Frame).ret = last.ret
        /\ generate_graph(Frame).fr = Frame
        /\ \A v \in InitValues \cup TamperValues :
               /\ generate_graph(OnlyLog(v)).raised = last.raised
               /\ generate_graph(OnlyLog(v)).ret = last.ret

\* generate_graph returned text for a log of two or more entries
C19_Witness ==
    /\ last.op = "generate_graph"
    /\ last.raised.kind = "None"
    /\ Len(call_graph) >= 2
    /\ Len(last.ret) = 2 * Len(call_graph)

\* the node lines and the edge lines of a rendered text, in text order
NodesOf(text) == SelectSeq(text, LAMBDA l : l.kind = "node")

EdgesOf(text) == SelectSeq(text, LAMBDA l : l.kind = "edge")

\* C20 (render structure): for a log of n entries generate_graph returns a
\* text that begins with the graph header and has exactly n nodes, the i-th
\* being entry i, and exactly the n-1 edges from each node to the next; for
\* an empty log it returns the header alone.
C20_RenderStructure ==
    last.op = "generate_graph" =>
        LET n == Len(call_graph) IN
        /\ last.raised.kind = "None"
        /\ last.ret[1] = Header
        /\ Len(NodesOf(last.ret)) = n
        /\ \A i \in 1..n : /\ NodesOf(last.ret)[i].a = i - 1
                           /\ NodesOf(last.ret)[i].label = call_graph[i].name
        /\ Len(EdgesOf(last.ret)) = n - 1 \/ n = 0
        /\ Len(last.ret) = 1 + Len(NodesOf(last.ret)) + Len(EdgesOf(last.ret))
        /\ \A i \in 1..(n - 1) : /\ EdgesOf(last.ret)[i].a = i - 1
                                 /\ EdgesOf(last.ret)[i].b = i

\* C18 (unwrap_or): in every reachable state of a container, unwrap_or with
\* a default returns without raising, returns the container's value when no
\* exception is stored and the given default when one is, and leaves the
\* container as it was.
C18_UnwrapOr ==
    boxlast.op = "unwrap_or" =>
        /\ boxlast.raised.kind = "None"
        /\ boxlast.ret = (IF boxlast.pre.exception.kind = "None"
                          THEN boxlast.pre.value ELSE boxlast.default)
        /\ box = boxlast.pre

C22_SignatureFingerprint ==
    \A v \in InitValues \cup TamperValues : (sign(v) = sign(value)) <=> (v = value)

\* the fields of the chain
Fields == <<value, signature, error, call_graph>>

\* while the call of task i is suspended nothing has touched the chain: the
\* fields are those the call left at its await, and the argument its step
\* was given is still the chain's value
Undisturbed(i) ==
    /\ inflight[i].snap = Fields
    /\ inflight[i].arg = value

FuncOnPre == Call(boxlast.func, boxlast.pre.value)

\* C24 (Result short-circuit): a bind on a container that holds an exception
\* executes no function, returns that same container and leaves it as it
\* was, so the stored exception stays the first one raised.
C24_ResultShortCircuit ==
    (boxlast.op = "bind" /\ boxlast.pre.exception.kind # "None") =>
        /\ boxlast.ran = <<>>
        /\ boxlast.raised.kind = "None"
        /\ boxlast.ret = boxlast.pre
        /\ box = boxlast.pre

\* C25 (Result exclusivity): every Result the caller holds, constructed as
\* Result(v) or Result(v, e) and bound any number of times, has value None
\* or exception None; a bind whose function raises gives value None and the
\* raised exception, and a bind whose function returns gives exception None.
C25_ResultExclusive ==
    box.cls = "Result" =>
        /\ box.value = NoneV \/ box.exception.kind = "None"
        /\ (boxlast.op = "bind" /\ boxlast.pre.exception.kind = "None") =>
              IF FuncOnPre.ok
              THEN box.exception.kind = "None" /\ box.value = FuncOnPre.val
              ELSE box.value = NoneV /\ box.exception.kind = FuncOnPre.exc

\* C26 (Maybe absorbs None): build_path on a Maybe whose value is None
\* executes no function and returns a Maybe with value None, so the value
\* stays None through any sequence of calls; on any other value it executes
\* the function once and, when that returns, returns Maybe(func(value)).
C26_MaybeAbsorbsNone ==
    (boxlast.op = "build_path" /\ boxlast.pre.cls = "Maybe") =>
        IF boxlast.pre.value = NoneV
        THEN /\ boxlast.ran = <<>>
             /\ boxlast.raised.kind = "None"
             /\ boxlast.ret = Box("Maybe", NoneV, NoError)
             /\ box.value = NoneV
        ELSE /\ boxlast.ran = <<boxlast.func>>
             /\ FuncOnPre.ok => /\ boxlast.raised.kind = "None"
                                /\ boxlast.ret = Box("Maybe", FuncOnPre.val, NoError)
                                /\ box = boxlast.ret

\* a Maybe that started with a value, got None from a function, and was then
\* bound to x + 1
C26_Witness ==
    /\ boxlast.op = "build_path"
    /\ box.cls = "Maybe"
    /\ boxlast.pre.value = NoneV
    /\ boxlast.func = "add_one"
    /\ boxlast.binds = 3

MonadOps == {"build_path", "rshift", "lshift"}

\* C27 (identity Monad): for the base Monad, build_path(f), m >> f and m << f
\* with a function that returns give a new Monad whose value is f(m.value),
\* and leave m as it was.
C27_IdentityMonad ==
    (boxlast.pre.cls = "Monad" /\ boxlast.op \in MonadOps /\ FuncOnPre.ok) =>
        /\ boxlast.raised.kind = "None"
        /\ boxlast.ret = Box("Monad", FuncOnPre.val, NoError)
        /\ box = boxlast.pre

\* C28 (failed fallback escalates): when a call took the automatic-retry
\* path, either the fallback returned and value is its payload with no
\* pending error, or the fallback failed and then the pending error is set
\* and value is the pre-step value; value is never anything else.
C28_FallbackEscalates ==
    Retried =>
        \/ /\ Call(Fallback, last.preValue).ok
           /\ value = Call(Fallback, last.preValue).val
           /\ error = last.preError
        \/ /\ ErrorSet
           /\ value = last.preValue

\* C29 (failing final): when step, alternative and final all fail in
\* alternate_bind on a clean chain, the call returns, the pending error is
\* final's failure, value is unchanged, and final is the last function
\* attempted.
C29_FailingFinal ==
    (/\ last.op = "alternate_bind"
     /\ CleanStart
     /\ ~StepOnPre.ok
     /\ ~Call(last.alt, last.preValue).ok
     /\ ~Call(last.final, last.preValue).ok) =>
        /\ last.raised.kind = "None"
        /\ error.kind = Call(last.final, last.preValue).exc
        /\ error.step = last.final
        /\ value = last.preValue
        /\ last.ran # <<>> /\ last.ran[Len(last.ran)] = last.final

\* C30 (no false corruption alarm): a call made on a clean chain whose value
\* nothing outside the chain has written leaves no AssertionError of check()
\* as the chain's error, whatever the step.
C30_NoFalseAlarm ==
    (last.op \in ApplyStarOps /\ CleanStart /\ ~last.tampered) =>
        error.kind # "AssertionError"

\* how often function g was executed within the last call
Invocations(g) == Len(SelectSeq(last.ran, LAMBDA x : x = g))

\* the alternative of the last call: the one passed, or the built-in fallback
AltOfCall == IF last.alt # "" THEN last.alt ELSE Fallback

\* in how many of the roles step, alternative, final the last call has g
Roles(g) ==
    (IF last.func = g THEN 1 ELSE 0) + (IF AltOfCall = g THEN 1 ELSE 0)
        + (IF last.final = g THEN 1 ELSE 0)

C32_ErrorNeverCleared == [][error.kind # "None" => error'.kind # "None"]_vars

\* alternate_bind was called on a chain whose error was already set, after
\* earlier calls, and the error is still set
C32_Witness ==
    /\ last.preError.kind # "None"
    /\ last.op = "alternate_bind"
    /\ ErrorSet
    /\ Len(call_graph) = MaxCalls

\* C34 (Encapsulate.bind applies the function once): on an Encapsulate with
\* no exception and a function that returns, bind executes the function
\* once, the stored value becomes func(old value), and the returned object
\* is that same value.
C34_BindAppliesOnce ==
    (/\ boxlast.op = "bind"
     /\ boxlast.pre.cls = "Encapsulate"
     /\ boxlast.pre.exception.kind = "None"
     /\ FuncOnPre.ok) =>
        /\ boxlast.ran = <<boxlast.func>>
        /\ box.value = FuncOnPre.val
        /\ box.exception.kind = "None"
        /\ boxlast.ret = FuncOnPre.val

\* C33: a tuple returned by unwrap and kept by the caller reads the same after
\* any later build_path, <<, bind_task, retry or alternate_bind call on the
\* same chain as it did when it was returned; the chain's log may have grown
\* in the meantime.
C33_SnapshotIsolated == kept.taken => Read(kept.ret) = kept.seen

\* an apply call made after the unwrap has lengthened the chain's log
C33_Witness ==
    /\ kept.taken
    /\ last.op \in ApplyStarOps
    /\ Len(call_graph) > kept.len

=============================================================================
